---- MODULE Spec2Model ----
(***************************************************************************)
(* modem-exporter (src/main.rs): a warp handler on GET /metrics that, per  *)
(* scrape, acquires a session from the modem, fetches the traffic          *)
(* statistics and encodes them as a Prometheus text document.              *)
(*                                                                         *)
(* Each scrape is one task on the current_thread tokio runtime.  A task    *)
(* runs without interruption between two .await points, so one action of   *)
(* the model is the code between two suspension points of Modem::get.       *)
(* The suspension on send() and the one on bytes() of the same call are    *)
(* merged: a device reply is the whole outcome of one HTTP exchange.        *)
(***************************************************************************)
EXTENDS Integers, Sequences, FiniteSets, TLC

VARIABLES
    pc,        \* per scrape: where the handler's future is suspended
    modem,     \* per scrape: the Modem value's session field
    sent,      \* per scrape: the requests it has put on the wire, in order
    replies,   \* per scrape: the device replies it has consumed, in order
    stats,     \* per scrape: the TrafficStatistics gather_statistics returned
    result,    \* per scrape: the value gather_metrics returned
    response,  \* per scrape: the HTTP response sent to the scraper
    hung,      \* scrapes whose pending device call will never return
    encIn,     \* encoder harness: the TrafficStatistics value under encoding
    encOut     \* encoder harness: the documents produced from encIn, in order

vars == <<pc, modem, sent, replies, stats, result, response, hung, encIn, encOut>>
pipeVars == <<pc, modem, sent, replies, stats, result, response, hung>>
encVars == <<encIn, encOut>>

----------------------------------------------------------------------------
(* Bounds of the model *)

NumScrapes == 2
MaxVal == 1
MaxEncodes == 2

Scrapes == 1..NumScrapes

----------------------------------------------------------------------------
(* Option and Result *)

None == [some |-> FALSE]
Some(v) == [some |-> TRUE, val |-> v]

Ok(v) == [ok |-> TRUE, val |-> v]
Err(e) == [ok |-> FALSE, err |-> e]

(* anyhow::Error: a chain of causes, outermost first.  Each link has the   *)
(* type of the error it wraps and its Display text as a list of pieces.    *)
Link(kind, msg) == [kind |-> kind, msg |-> msg]
Root(kind, msg) == <<Link(kind, msg)>>
WithContext(ctx, r) ==
    IF r.ok THEN r ELSE Err(<<Link("context", <<ctx>>)>> \o r.err)

(* format!("{err:?}") of an anyhow::Error: the outermost message, then the *)
(* causes under a "Caused by:" heading (numbered when there are several).  *)
RECURSIVE Causes(_, _, _)
Causes(e, i, numbered) ==
    IF i > Len(e) THEN <<>>
    ELSE <<"\n    ">> \o (IF numbered THEN <<ToString(i - 2), ": ">> ELSE <<>>)
         \o e[i].msg \o Causes(e, i + 1, numbered)
DebugFmt(e) ==
    e[1].msg \o (IF Len(e) > 1
                 THEN <<"\n\nCaused by:">> \o Causes(e, 2, Len(e) > 2)
                 ELSE <<>>)

----------------------------------------------------------------------------
(* The device: what one HTTP exchange with the modem can come to *)

SessionPath == "/api/webserver/SesTokInfo"
StatsPath == "/api/monitoring/traffic-statistics"

EmptyBody == [root |-> ""]
Refused == [conn |-> FALSE, status |-> 0, body |-> EmptyBody]
Reply(status, body) == [conn |-> TRUE, status |-> status, body |-> body]

Sessions == { [root |-> "response", SesInfo |-> "SessionID=a", TokInfo |-> "tok-a"],
              [root |-> "response", SesInfo |-> "SessionID=b", TokInfo |-> "tok-b"] }
SessionReplies ==
    { Refused, Reply(503, EmptyBody), Reply(200, EmptyBody),
      Reply(200, [root |-> "response", SesInfo |-> "SessionID=a"]) }
    \cup { Reply(200, b) : b \in Sessions }

Snapshot(v) ==
    [root |-> "response",
     CurrentUpload |-> 100 + v, CurrentDownload |-> 200 + v,
     CurrentConnectTime |-> 10 + v, TotalUpload |-> 500000 + v,
     TotalDownload |-> 900000 + v, TotalConnectTime |-> 3600 + v]
ApiErrors == { [root |-> "error", code |-> 125, message |-> "no rights"],
               [root |-> "error", code |-> 125002, message |-> ""] }
StatsReplies ==
    { Refused, Reply(503, EmptyBody), Reply(200, EmptyBody),
      Reply(200, [root |-> "response", CurrentUpload |-> 100]) }
    \cup { Reply(200, b) : b \in ApiErrors }
    \cup { Reply(200, Snapshot(v)) : v \in 0..MaxVal }

----------------------------------------------------------------------------
(* ModemResponse, SessionResponse, TrafficStatistics and their parsers *)

Response(val) == [variant |-> "response", val |-> val]
ErrorV(code, message) == [variant |-> "error", code |-> code, message |-> message]

ParseError(what) == Err(Root("quick_xml::DeError", <<what>>))

(* from_reader::<Option<SessionResponse>>: the target type is the type of  *)
(* Modem::session.  serde's Option is None on a document with no content   *)
(* and Some(struct) otherwise; the struct needs both renamed fields.       *)
SessionFromReader(body) ==
    IF body.root = "" THEN Ok(None)
    ELSE IF ~ ("SesInfo" \in DOMAIN body) THEN ParseError("missing field SesInfo")
    ELSE IF ~ ("TokInfo" \in DOMAIN body) THEN ParseError("missing field TokInfo")
    ELSE Ok(Some([session |-> body.SesInfo, token |-> body.TokInfo]))

StatsFields ==
    <<"CurrentUpload", "CurrentDownload", "CurrentConnectTime",
      "TotalUpload", "TotalDownload", "TotalConnectTime">>

TrafficStatistics(body) ==
    [current_upload |-> body.CurrentUpload,
     current_download |-> body.CurrentDownload,
     current_connect_time |-> body.CurrentConnectTime,
     total_upload |-> body.TotalUpload,
     total_download |-> body.TotalDownload,
     total_connect_time |-> body.TotalConnectTime]

(* from_reader::<ModemResponse<TrafficStatistics>>: the root element's     *)
(* lowercase name selects the variant.                                     *)
StatsFromReader(body) ==
    IF body.root = "" THEN ParseError("unexpected end of input")
    ELSE IF body.root = "response"
    THEN IF \A i \in 1..Len(StatsFields) : StatsFields[i] \in DOMAIN body
         THEN Ok(Response(TrafficStatistics(body)))
         ELSE ParseError("missing field")
    ELSE IF body.root = "error"
    THEN IF {"code", "message"} \subseteq DOMAIN body
         THEN Ok(ErrorV(body.code, body.message))
         ELSE ParseError("missing field")
    ELSE ParseError("unknown variant")

(* ModemResponse::ok *)
ApiErrorText(code, message) ==
    <<"api error: code=", ToString(code), " message=", message>>
ModemResponseOkLossy(r) ==
    IF r.variant = "response" THEN Ok(r.val)
    ELSE Err(Root("anyhow", <<"api error">>))
ModemResponseOk(r) ==
    IF r.variant = "response" THEN Ok(r.val)
    ELSE Err(Root("anyhow", ApiErrorText(r.code, r.message)))

----------------------------------------------------------------------------
(* <TrafficStatistics as Collector>::encode and the text encoder.  A        *)
(* document is a list of lines; a line is a descriptor line (HELP, TYPE,    *)
(* UNIT), a sample, or the closing EOF marker.                              *)

Line(kind, name, labels, text, value) ==
    [kind |-> kind, name |-> name, labels |-> labels, text |-> text, value |-> value]

(* encode_descriptor: the family's name carries the unit as a suffix *)
EncodeDescriptor(name, help, unit, type) ==
    LET full == name \o "_" \o unit IN
    << Line("HELP", full, <<>>, help \o ".", 0),
       Line("TYPE", full, <<>>, type, 0),
       Line("UNIT", full, <<>>, unit, 0) >>

(* encode_family(labels).encode_counter(value): one sample line *)
EncodeCounter(name, unit, labels, value) ==
    Line("SAMPLE", name \o "_" \o unit \o "_total", labels, "", value)

PeriodDirection(period, direction) ==
    << <<"period", period>>, <<"direction", direction>> >>
Period(period) == << <<"period", period>> >>

TransferredFamilySwapped(self) ==
    EncodeDescriptor("modem_transferred", "Transferred bytes", "bytes", "gauge")
    \o << EncodeCounter("modem_transferred", "bytes",
                        PeriodDirection("session", "upload"), self.current_download),
          EncodeCounter("modem_transferred", "bytes",
                        PeriodDirection("session", "download"), self.current_upload),
          EncodeCounter("modem_transferred", "bytes",
                        PeriodDirection("total", "upload"), self.total_upload),
          EncodeCounter("modem_transferred", "bytes",
                        PeriodDirection("total", "download"), self.total_download) >>
TransferredFamily(self) ==
    EncodeDescriptor("modem_transferred", "Transferred bytes", "bytes", "gauge")
    \o << EncodeCounter("modem_transferred", "bytes",
                        PeriodDirection("session", "upload"), self.current_upload),
          EncodeCounter("modem_transferred", "bytes",
                        PeriodDirection("session", "download"), self.current_download),
          EncodeCounter("modem_transferred", "bytes",
                        PeriodDirection("total", "upload"), self.total_upload),
          EncodeCounter("modem_transferred", "bytes",
                        PeriodDirection("total", "download"), self.total_download) >>

DurationFamily(self) ==
    EncodeDescriptor("modem_connect_duration", "Connected duration", "seconds", "counter")
    \o << EncodeCounter("modem_connect_duration", "seconds",
                        Period("session"), self.current_connect_time),
          EncodeCounter("modem_connect_duration", "seconds",
                        Period("total"), self.total_connect_time) >>

CollectorEncode(self) == TransferredFamily(self) \o DurationFamily(self)

(* Registry::default(), register_collector, text::encode.  Writing into a  *)
(* String cannot fail, so the encoder's Result is always Ok.               *)
RECURSIVE Collected(_)
Collected(n) ==
    IF n = 0 THEN <<>>
    ELSE Collected(n - 1) \o (IF stats[n].some THEN <<stats[n].val>> ELSE <<>>)
RegistryShared == Collected(NumScrapes)
RegistryDefault == <<>>
RegisterCollector(registry, collector) == Append(registry, collector)

RECURSIVE EncodeCollectors(_, _)
EncodeCollectors(registry, i) ==
    IF i > Len(registry) THEN <<>>
    ELSE CollectorEncode(registry[i]) \o EncodeCollectors(registry, i + 1)
TextEncode(registry) ==
    Ok(EncodeCollectors(registry, 1) \o <<Line("EOF", "", <<>>, "", 0)>>)

(* gather_metrics after gather_statistics has returned *)
EncodeMetrics(collector) ==
    WithContext("failed to encode",
                TextEncode(RegisterCollector(RegistryDefault, collector)))

----------------------------------------------------------------------------
(* Modem::new, Modem::get *)

ModemNew == None

Get(session, path) ==
    [method |-> "GET",
     url |-> "http://192.168.8.1" \o path,
     headers |-> IF session.some
                 THEN << <<"Cookie", session.val.session>>,
                         <<"__RequestVerificationToken", session.val.token>> >>
                 ELSE <<>>]

(* The rest of get once the exchange is over: send()?, error_for_status()?, *)
(* bytes()?, then from_reader()? at the type the caller asks for.           *)
GetBytes(rep) ==
    IF ~ rep.conn
    THEN Err(Root("reqwest::Error", <<"error sending request">>))
    ELSE IF rep.status >= 400 /\ rep.status <= 599
    THEN Err(Root("reqwest::Error", <<"HTTP status error ", ToString(rep.status)>>))
    ELSE Ok(rep.body)
GetSession(rep) ==
    LET data == GetBytes(rep) IN IF data.ok THEN SessionFromReader(data.val) ELSE data
GetStatistics(rep) ==
    LET data == GetBytes(rep) IN IF data.ok THEN StatsFromReader(data.val) ELSE data

----------------------------------------------------------------------------
(* The /metrics handler *)

(* The reply is a String, so warp answers 200 OK with it as the body.  The  *)
(* body is a list of lines: the document's, or the error's text pieces.    *)
ReplyStatusByOutcome(r) == IF r.ok THEN 200 ELSE 500
ReplyStatus(r) == 200
TextBody(pieces) == [i \in 1..Len(pieces) |-> Line("TEXT", "", <<>>, pieces[i], 0)]
ReplyBody(r) == IF r.ok THEN r.val ELSE TextBody(DebugFmt(r.err))
Handler(r) == [status |-> ReplyStatus(r), body |-> ReplyBody(r)]

(* A suspended task is resumed when its own exchange is over; tasks         *)
(* suspended on other exchanges do not hold the runtime's thread.           *)
ResumableBlocking(s) == s \notin hung /\ hung = {}
Resumable(s) == s \notin hung

StoreSessionShared(s, v) == [modem EXCEPT ![1] = v]
StoreSession(s, v) == [modem EXCEPT ![s] = v]

Finish(s, r) ==
    /\ result' = [result EXCEPT ![s] = Some(r)]
    /\ response' = [response EXCEPT ![s] = Some(Handler(r))]
    /\ pc' = [pc EXCEPT ![s] = "done"]

AllStats ==
    [current_upload : 0..MaxVal, current_download : 0..MaxVal,
     current_connect_time : 0..MaxVal, total_upload : 0..MaxVal,
     total_download : 0..MaxVal, total_connect_time : 0..MaxVal]

Init ==
    /\ pc = [s \in Scrapes |-> "idle"]
    /\ modem = [s \in Scrapes |-> None]
    /\ sent = [s \in Scrapes |-> <<>>]
    /\ replies = [s \in Scrapes |-> <<>>]
    /\ stats = [s \in Scrapes |-> None]
    /\ result = [s \in Scrapes |-> None]
    /\ response = [s \in Scrapes |-> None]
    /\ hung = {}
    /\ encIn = TrafficStatistics(Snapshot(0))
    /\ encOut = <<>>

AcceptCached(s) ==
    /\ pc[s] = "idle"
    /\ IF \E t \in Scrapes : modem[t].some
       THEN LET t == CHOOSE t \in Scrapes : modem[t].some IN
            /\ modem' = [modem EXCEPT ![s] = modem[t]]
            /\ sent' = [sent EXCEPT ![s] = Append(@, Get(modem[t], StatsPath))]
            /\ pc' = [pc EXCEPT ![s] = "get_stats"]
       ELSE /\ modem' = [modem EXCEPT ![s] = None]
            /\ sent' = [sent EXCEPT ![s] = Append(@, Get(None, SessionPath))]
            /\ pc' = [pc EXCEPT ![s] = "get_session"]
    /\ UNCHANGED <<replies, stats, result, response, hung, encVars>>

(* A scrape arrives: gather_metrics up to the first await of get *)
Accept(s) ==
    /\ pc[s] = "idle"
    /\ modem' = StoreSession(s, ModemNew)
    /\ sent' = [sent EXCEPT ![s] = Append(@, Get(ModemNew, SessionPath))]
    /\ pc' = [pc EXCEPT ![s] = "get_session"]
    /\ UNCHANGED <<replies, stats, result, response, hung, encVars>>

(* The session exchange is over: gather_statistics up to the second await *)
SessionReturns(s) ==
    /\ pc[s] = "get_session"
    /\ Resumable(s)
    /\ \E rep \in SessionReplies :
        LET r == WithContext("get session", GetSession(rep)) IN
        /\ replies' = [replies EXCEPT ![s] = Append(@, rep)]
        /\ IF r.ok
           THEN /\ modem' = StoreSession(s, r.val)
                /\ sent' = [sent EXCEPT ![s] = Append(@, Get(modem'[s], StatsPath))]
                /\ pc' = [pc EXCEPT ![s] = "get_stats"]
                /\ UNCHANGED <<result, response>>
           ELSE /\ Finish(s, r)
                /\ UNCHANGED <<modem, sent>>
    /\ UNCHANGED <<stats, hung, encVars>>

(* The statistics exchange is over: the rest of the pipeline and the reply *)
StatsReturns(s) ==
    /\ pc[s] = "get_stats"
    /\ Resumable(s)
    /\ \E rep \in StatsReplies :
        LET got == GetStatistics(rep)
            traffic_stats == IF got.ok THEN ModemResponseOk(got.val) ELSE got
            r == IF traffic_stats.ok THEN EncodeMetrics(traffic_stats.val)
                 ELSE traffic_stats
        IN  /\ replies' = [replies EXCEPT ![s] = Append(@, rep)]
            /\ stats' = [stats EXCEPT ![s] =
                             IF traffic_stats.ok THEN Some(traffic_stats.val) ELSE None]
            /\ Finish(s, r)
    /\ UNCHANGED <<modem, sent, hung, encVars>>

(* The device never answers the pending exchange of s *)
DeviceHangs(s) ==
    /\ pc[s] \in {"get_session", "get_stats"}
    /\ s \notin hung
    /\ hung' = hung \cup {s}
    /\ UNCHANGED <<pc, modem, sent, replies, stats, result, response, encVars>>

Next ==
    \E s \in Scrapes :
        \/ Accept(s)
        \/ SessionReturns(s)
        \/ StatsReturns(s)
        \/ DeviceHangs(s)

Spec == Init /\ [][Next]_vars

(* The device answers every exchange it has not dropped *)
FairSpec ==
    Spec /\ \A s \in Scrapes : WF_vars(SessionReturns(s)) /\ WF_vars(StatsReturns(s))

(* The encoder on its own, over every TrafficStatistics value *)
EncInit ==
    /\ pc = [s \in Scrapes |-> "idle"]
    /\ modem = [s \in Scrapes |-> None]
    /\ sent = [s \in Scrapes |-> <<>>]
    /\ replies = [s \in Scrapes |-> <<>>]
    /\ stats = [s \in Scrapes |-> None]
    /\ result = [s \in Scrapes |-> None]
    /\ response = [s \in Scrapes |-> None]
    /\ hung = {}
    /\ encIn \in AllStats
    /\ encOut = <<>>

EncodeOnce ==
    /\ Len(encOut) < MaxEncodes
    /\ encOut' = Append(encOut, EncodeMetrics(encIn))
    /\ UNCHANGED <<encIn, pipeVars>>

EncNext == EncodeOnce

EncSpec == EncInit /\ [][EncNext]_vars

----------------------------------------------------------------------------
(* Vocabulary of the properties *)

UrlOf(path) == "http://192.168.8.1" \o path
IsDone(s) == pc[s] = "done"
RequestsTo(s, path) == { i \in 1..Len(sent[s]) : sent[s][i].url = UrlOf(path) }
SampleLines(body) == { i \in 1..Len(body) : body[i].kind = "SAMPLE" }
Texts(body) == { body[i].text : i \in { j \in 1..Len(body) : body[j].kind = "TEXT" } }
Delivered(rep) == rep.conn /\ rep.status = 200
HasSession(body) == {"SesInfo", "TokInfo"} \subseteq DOMAIN body
HasStatistics(body) ==
    body.root = "response" /\ \A i \in 1..Len(StatsFields) : StatsFields[i] \in DOMAIN body
HasApiError(body) == body.root = "error" /\ {"code", "message"} \subseteq DOMAIN body
SessionHeaders(body) ==
    << <<"Cookie", body.SesInfo>>, <<"__RequestVerificationToken", body.TokInfo>> >>
RootCause(e) == e[Len(e)]
Failed(s) == result[s].some /\ ~ result[s].val.ok
Category(s) == RootCause(result[s].val.err).kind

----------------------------------------------------------------------------
(* C1: every scrape that ends is answered with status 200; the body is the *)
(* encoded metrics document when gather_metrics succeeded and the error's  *)
(* description when it failed at any step; no scrape ends without a        *)
(* response, and no response carries another status.                       *)
C1_AlwaysStatus200 ==
    \A s \in Scrapes :
        /\ response[s].some => IsDone(s) /\ response[s].val.status = 200
        /\ IsDone(s) =>
            /\ response[s].some /\ result[s].some
            /\ LET r == result[s].val
                   body == response[s].val.body
               IN  IF r.ok
                   THEN body = r.val /\ SampleLines(body) # {}
                        /\ body[Len(body)].kind = "EOF"
                   ELSE /\ body = TextBody(DebugFmt(r.err))
                        /\ \A i \in 1..Len(body) : body[i].kind = "TEXT"

(* C1 witness: a scrape that failed on a refused connection while          *)
(* acquiring the session was answered 200 with the error text.             *)
C1_Witness ==
    \E s \in Scrapes :
        /\ IsDone(s) /\ Failed(s)
        /\ replies[s] = <<Refused>>
        /\ Category(s) = "reqwest::Error"
        /\ response[s].val.status = 200
        /\ "get session" \in Texts(response[s].val.body)

(* C2: when the session endpoint answers with a malformed body (an empty   *)
(* one, or one lacking SesInfo or TokInfo), the scrape sends no statistics *)
(* request and fails with a parse error.                                   *)
C2_MalformedSessionAborts ==
    \A s \in Scrapes :
        (Len(replies[s]) >= 1 /\ Delivered(replies[s][1])
            /\ ~ HasSession(replies[s][1].body))
        => /\ RequestsTo(s, StatsPath) = {}
           /\ Failed(s)
           /\ Category(s) = "quick_xml::DeError"

(* C3: envelope resolution has two cases.  A Response envelope yields its  *)
(* inner value unchanged; an Error envelope with code c and message m      *)
(* fails the scrape with an error whose text carries c and m verbatim, and *)
(* the response holds no metric sample.                                    *)
C3_EnvelopeResolution ==
    \A s \in Scrapes :
        (Len(replies[s]) = 2 /\ Delivered(replies[s][2])) =>
            LET b == replies[s][2].body
                body == response[s].val.body
            IN  /\ IsDone(s)
                /\ HasStatistics(b) =>
                    /\ result[s].val.ok
                    /\ stats[s] = Some([current_upload |-> b.CurrentUpload,
                                        current_download |-> b.CurrentDownload,
                                        current_connect_time |-> b.CurrentConnectTime,
                                        total_upload |-> b.TotalUpload,
                                        total_download |-> b.TotalDownload,
                                        total_connect_time |-> b.TotalConnectTime])
                /\ HasApiError(b) =>
                    /\ Failed(s)
                    /\ stats[s] = None
                    /\ result[s].val.err =
                         <<Link("anyhow", <<"api error: code=", ToString(b.code),
                                            " message=", b.message>>)>>
                    /\ ToString(b.code) \in Texts(body)
                    /\ b.message \in Texts(body)
                    /\ SampleLines(body) = {}
                /\ (~ HasStatistics(b) /\ ~ HasApiError(b)) =>
                    Failed(s) /\ Category(s) = "quick_xml::DeError"

(* C3 witness: the statistics endpoint answered with the Error envelope    *)
(* code 125, message "no rights", and the response text shows both.        *)
C3_Witness ==
    \E s \in Scrapes :
        /\ IsDone(s) /\ Len(replies[s]) = 2
        /\ replies[s][2] = Reply(200, [root |-> "error", code |-> 125,
                                       message |-> "no rights"])
        /\ {"125", "no rights"} \subseteq Texts(response[s].val.body)

SampleOf(line) == [name |-> line.name, labels |-> line.labels, value |-> line.value]
ExpectedSamples(v) ==
    { [name |-> "modem_transferred_bytes_total",
       labels |-> << <<"period", "session">>, <<"direction", "upload">> >>,
       value |-> v.current_upload],
      [name |-> "modem_transferred_bytes_total",
       labels |-> << <<"period", "session">>, <<"direction", "download">> >>,
       value |-> v.current_download],
      [name |-> "modem_transferred_bytes_total",
       labels |-> << <<"period", "total">>, <<"direction", "upload">> >>,
       value |-> v.total_upload],
      [name |-> "modem_transferred_bytes_total",
       labels |-> << <<"period", "total">>, <<"direction", "download">> >>,
       value |-> v.total_download],
      [name |-> "modem_connect_duration_seconds_total",
       labels |-> << <<"period", "session">> >>,
       value |-> v.current_connect_time],
      [name |-> "modem_connect_duration_seconds_total",
       labels |-> << <<"period", "total">> >>,
       value |-> v.total_connect_time] }
(* C4: for every TrafficStatistics value the encoder emits exactly six     *)
(* samples: transferred bytes for (session, upload), (session, download),  *)
(* (total, upload), (total, download) and connect duration for (session),  *)
(* (total); each label combination occurs once and carries the value of    *)
(* its input field.                                                        *)
C4_ExactlySixSamples ==
    \A k \in 1..Len(encOut) :
        /\ encOut[k].ok
        /\ LET doc == encOut[k].val IN
            /\ Cardinality(SampleLines(doc)) = 6
            /\ { SampleOf(doc[i]) : i \in SampleLines(doc) } = ExpectedSamples(encIn)
            /\ \A i, j \in SampleLines(doc) :
                (doc[i].name = doc[j].name /\ doc[i].labels = doc[j].labels) => i = j

(* C4 witness: a value whose six fields are not all equal has been encoded *)
C4_Witness ==
    /\ Len(encOut) >= 1
    /\ encIn.current_upload # encIn.current_download
    /\ encIn.total_upload # encIn.current_upload
    /\ encIn.current_connect_time # encIn.total_connect_time

(* C5: the session request carries no Cookie and no                        *)
(* __RequestVerificationToken header, and every statistics request carries *)
(* both, with the SesInfo and TokInfo of the session reply of the same     *)
(* scrape; no statistics request goes out without them.                    *)
C5_SessionHeaders ==
    \A s \in Scrapes :
        /\ \A i \in RequestsTo(s, SessionPath) : sent[s][i].headers = <<>>
        /\ \A i \in RequestsTo(s, StatsPath) :
            /\ Len(replies[s]) >= 1
            /\ HasSession(replies[s][1].body)
            /\ sent[s][i].headers = SessionHeaders(replies[s][1].body)

(* C6: a scrape sends at most one request to each endpoint, the first      *)
(* failure of a step (refused connection, non-success status, unparseable  *)
(* body, error envelope) ends it at once, and the response of a failed     *)
(* scrape holds no metric sample.                                          *)
C6_FirstFailureEnds ==
    \A s \in Scrapes :
        /\ Cardinality(RequestsTo(s, SessionPath)) <= 1
        /\ Cardinality(RequestsTo(s, StatsPath)) <= 1
        /\ (Len(replies[s]) >= 1
              /\ (~ Delivered(replies[s][1]) \/ ~ HasSession(replies[s][1].body)))
           => IsDone(s) /\ Failed(s) /\ Len(sent[s]) = 1 /\ Len(replies[s]) = 1
        /\ (Len(replies[s]) = 2
              /\ (~ Delivered(replies[s][2]) \/ ~ HasStatistics(replies[s][2].body)))
           => IsDone(s) /\ Failed(s)
        /\ IsDone(s) => Len(sent[s]) = Len(replies[s])
        /\ Failed(s) => SampleLines(response[s].val.body) = {}

(* C7: the statistics request of a scrape carries the cookie and token of  *)
(* that scrape's own session reply whatever the other scrapes have         *)
(* acquired, and two scrapes that were given the same device replies end   *)
(* with the same result and response whatever happened to the others.      *)
C7_Independent ==
    /\ \A s \in Scrapes : \A i \in RequestsTo(s, StatsPath) :
        LET b == replies[s][1].body IN
        sent[s][i].headers = IF HasSession(b) THEN SessionHeaders(b) ELSE <<>>
    /\ \A s, t \in Scrapes :
        (IsDone(s) /\ IsDone(t) /\ replies[s] = replies[t])
        => /\ result[s] = result[t]
           /\ response[s] = response[t]
           /\ stats[s] = stats[t]

(* C7 witness: two scrapes were given different sessions, each sent its    *)
(* statistics request with its own, and one of them succeeded while the    *)
(* other failed.                                                           *)
C7_Witness ==
    \E s, t \in Scrapes :
        /\ s # t /\ IsDone(s) /\ IsDone(t)
        /\ Len(sent[s]) = 2 /\ Len(sent[t]) = 2
        /\ sent[s][2].headers # <<>> /\ sent[t][2].headers # <<>>
        /\ sent[s][2].headers # sent[t][2].headers
        /\ result[s].val.ok /\ ~ result[t].val.ok

(* C8: every scrape that has started has sent its own session request      *)
(* first, whatever earlier scrapes came to; a statistics request is the    *)
(* second request and goes out only once the session reply has been        *)
(* received and parsed; a scrape never has two exchanges in flight.        *)
C8_ReauthenticatesSequentially ==
    \A s \in Scrapes :
        /\ pc[s] # "idle" =>
            Len(sent[s]) >= 1 /\ sent[s][1] = Get(None, SessionPath)
        /\ \A i \in RequestsTo(s, StatsPath) :
            /\ i = 2
            /\ Len(replies[s]) >= 1
            /\ Delivered(replies[s][1])
            /\ SessionFromReader(replies[s][1].body) = Ok(modem[s])
        /\ Len(sent[s]) <= Len(replies[s]) + 1
        /\ Len(replies[s]) <= Len(sent[s])

(* C8 witness: a scrape has succeeded, and another scrape has gone through *)
(* its own session exchange and is waiting for its statistics.             *)
C8_Witness ==
    \E s, t \in Scrapes :
        /\ s # t
        /\ IsDone(t) /\ result[t].val.ok
        /\ pc[s] = "get_stats"
        /\ Len(sent[s]) = 2 /\ Len(replies[s]) = 1
        /\ sent[s][2].headers # <<>>

Layout ==
    << <<"HELP", "modem_transferred_bytes", <<>>>>,
       <<"TYPE", "modem_transferred_bytes", <<>>>>,
       <<"UNIT", "modem_transferred_bytes", <<>>>>,
       <<"SAMPLE", "modem_transferred_bytes_total",
         << <<"period", "session">>, <<"direction", "upload">> >> >>,
       <<"SAMPLE", "modem_transferred_bytes_total",
         << <<"period", "session">>, <<"direction", "download">> >> >>,
       <<"SAMPLE", "modem_transferred_bytes_total",
         << <<"period", "total">>, <<"direction", "upload">> >> >>,
       <<"SAMPLE", "modem_transferred_bytes_total",
         << <<"period", "total">>, <<"direction", "download">> >> >>,
       <<"HELP", "modem_connect_duration_seconds", <<>>>>,
       <<"TYPE", "modem_connect_duration_seconds", <<>>>>,
       <<"UNIT", "modem_connect_duration_seconds", <<>>>>,
       <<"SAMPLE", "modem_connect_duration_seconds_total", << <<"period", "session">> >> >>,
       <<"SAMPLE", "modem_connect_duration_seconds_total", << <<"period", "total">> >> >>,
       <<"EOF", "", <<>>>> >>
(* C9: a successful scrape's document is the transferred-bytes family (its *)
(* descriptor once, then session/upload, session/download, total/upload,   *)
(* total/download) followed by the connect-duration family (its descriptor *)
(* once, then session, total); and scrapes that encode the same            *)
(* TrafficStatistics value produce identical documents.                    *)
C9_DeterministicLayout ==
    /\ \A s \in Scrapes :
        (result[s].some /\ result[s].val.ok) =>
            LET doc == result[s].val.val IN
            /\ Len(doc) = Len(Layout)
            /\ \A i \in 1..Len(doc) :
                <<doc[i].kind, doc[i].name, doc[i].labels>> = Layout[i]
    /\ \A s, t \in Scrapes :
        (stats[s].some /\ stats[t].some /\ stats[s] = stats[t])
        => result[s] = result[t]

(* C9 witness: two scrapes have encoded the same value *)
C9_Witness ==
    \E s, t \in Scrapes :
        /\ s # t
        /\ stats[s].some /\ stats[s] = stats[t]
        /\ result[s].val.ok /\ result[t].val.ok

(* C10: a scrape whose device calls return is answered, also while another *)
(* scrape is suspended for ever on a call that never returns: in every     *)
(* run where the device answers the calls it has not dropped, from some    *)
(* point on every scrape that has arrived has been answered or is itself   *)
(* suspended on a call that never returns.  (An answer is never withdrawn, *)
(* a dropped call never returns and an arrived scrape does not go back to  *)
(* idle, so this is each arrived scrape leading to its answer or its own   *)
(* hang.)                                                                  *)
C10_OnlyTheHungScrapeStalls ==
    <>[](\A s \in Scrapes : pc[s] = "idle" \/ response[s].some \/ s \in hung)

(* C10 witness: one scrape is suspended on a call that will not return and *)
(* another one has been answered.                                          *)
C10_Witness ==
    \E s, t \in Scrapes :
        /\ s # t
        /\ s \in hung /\ pc[s] = "get_session"
        /\ response[t].some /\ Len(replies[t]) = 2

====
